---- MODULE Spec2Model ----
(***************************************************************************)
(* py-huff assembler (py_huff/assembler.py, py_huff/utils.py): validation  *)
(* of a symbolic instruction stream, solidification of its references to   *)
(* a uniform width, the shrink loop, and emission of the bytecode.         *)
(***************************************************************************)
EXTENDS Integers, Sequences, FiniteSets, TLC

VARIABLES pc, entry, asm, runtime, given, max_reduce_iters, solid_asm,
          max_iters, changed_any, passes, error, bytecode

vars == <<pc, entry, asm, runtime, given, max_reduce_iters, solid_asm,
          max_iters, changed_any, passes, error, bytecode>>

(***************************************************************************)
(* Bounds of the model.                                                    *)
(***************************************************************************)
\* longest stream drawn from the step alphabet
MaxLen == 4
\* largest explicit shrink budget a caller passes
MaxBudget == 1
\* payloads of every length 0..MaxPayload are deployed (plus the edge lengths)
MaxPayload == 2

(***************************************************************************)
(* Instruction model (assembler.py 7-22).                                  *)
(***************************************************************************)
\* a Python list or bytes value, as a sequence (an explicit tuple for TLC)
List(f) == <<>> \o f

START_SUB_ID == 0
END_SUB_ID == 1

\* MarkId = (ContextId, int); the contexts used here are the empty path
MarkId(sub) == << <<>>, sub >>

Op(op, extra_data) == [kind |-> "Op", op |-> op, extra_data |-> extra_data]
Mark(mid) == [kind |-> "Mark", mid |-> mid]
MarkRef(mid) == [kind |-> "MarkRef", mid |-> mid]
MarkDeltaRef(start, end) == [kind |-> "MarkDeltaRef", start |-> start, end |-> end]
SizedRef(ref, offset_size) == [kind |-> "SizedRef", ref |-> ref, offset_size |-> offset_size]
Bytes(data) == [kind |-> "bytes", data |-> data]

IsRef(step) == step.kind \in {"MarkRef", "MarkDeltaRef"}

set_size(ref, size) == SizedRef(ref.ref, size)

\* the opcode table (py_huff/opcodes.py): the mnemonics the assembler uses
OpByte(name) ==
    CASE name = "jumpdest" -> 91
      [] name = "dup1" -> 128
      [] name = "push0" -> 95
      [] name = "codecopy" -> 57
      [] name = "return" -> 243

create_plain_op(name) == Op(OpByte(name), <<>>)

\* push<n> carrying exactly the immediate it is given
create_push(data) == Op(95 + Len(data), data)

\* Op.get_bytes: the opcode byte followed by the immediate
get_bytes(step) == <<step.op>> \o step.extra_data

(***************************************************************************)
(* Sizes.                                                                  *)
(***************************************************************************)
\* a step of no known kind matches no arm (the TypeError of lines 38-39, 51-52)
min_static_size(step) ==
    CASE step.kind = "Op" -> 1 + Len(step.extra_data)
      [] step.kind = "bytes" -> Len(step.data)
      [] step.kind \in {"MarkRef", "MarkDeltaRef"} -> 1
      [] step.kind = "Mark" -> 0

get_size(step) ==
    CASE step.kind = "Op" -> 1 + Len(step.extra_data)
      [] step.kind = "bytes" -> Len(step.data)
      [] step.kind = "SizedRef" -> 1 + step.offset_size
      [] step.kind = "Mark" -> 0

\* int.bit_length: the bits of the absolute value
RECURSIVE bit_length(_)
bit_length(x) ==
    IF x < 0 THEN bit_length(-x)
    ELSE IF x = 0 THEN 0 ELSE 1 + bit_length(x \div 2)

Max2(a, b) == IF a >= b THEN a ELSE b

needed_bytes(x) == Max2((bit_length(x) + 7) \div 8, 1)

\* sum(map(min_static_size, asm[lo..hi])); the sum is split in halves so that
\* its evaluation nests no deeper than log2 of the stream's length
RECURSIVE MinStaticLen(_, _, _)
MinStaticLen(s, lo, hi) ==
    IF lo > hi THEN 0
    ELSE IF lo = hi THEN min_static_size(s[lo])
    ELSE LET mid == (lo + hi) \div 2
         IN MinStaticLen(s, lo, mid) + MinStaticLen(s, mid + 1, hi)

\* the running `offset` of get_solid_offsets after steps lo..hi
RECURSIVE SizeOfRange(_, _, _)
SizeOfRange(s, lo, hi) ==
    IF lo > hi THEN 0
    ELSE IF lo = hi THEN get_size(s[lo])
    ELSE LET mid == (lo + hi) \div 2
         IN SizeOfRange(s, lo, mid) + SizeOfRange(s, mid + 1, hi)

RECURSIVE DestBytesLoopInclusive(_, _, _)
DestBytesLoopInclusive(dest_bytes, min_static_len, ref_count) ==
    IF (2 ^ (8 * dest_bytes)) - 1 <= min_static_len + dest_bytes * ref_count
    THEN DestBytesLoopInclusive(dest_bytes + 1, min_static_len, ref_count)
    ELSE dest_bytes

\* lines 63-66: the while loop of get_min_static_size_bytes
RECURSIVE DestBytesLoop(_, _, _)
DestBytesLoop(dest_bytes, min_static_len, ref_count) ==
    IF (2 ^ (8 * dest_bytes)) - 1 < min_static_len + dest_bytes * ref_count
    THEN DestBytesLoop(dest_bytes + 1, min_static_len, ref_count)
    ELSE dest_bytes

get_min_static_size_bytes_of_opcodes(s) ==
    DestBytesLoop(1, MinStaticLen(s, 1, Len(s)), 0)

get_min_static_size_bytes(s) ==
    LET ref_count == Cardinality({i \in DOMAIN s : IsRef(s[i])})
        min_static_len == MinStaticLen(s, 1, Len(s))
    IN DestBytesLoop(1, min_static_len, ref_count)

asm_to_solid_keeps_ceiling(size_bytes) == size_bytes <= 6

\* the result of asm_to_solid: the solid stream, or the failed assertion
asm_to_solid(s) ==
    LET size_bytes == get_min_static_size_bytes(s)
    IN IF asm_to_solid_keeps_ceiling(size_bytes)
       THEN [ok |-> TRUE,
             asm |-> List([i \in DOMAIN s |->
                        IF IsRef(s[i]) THEN SizedRef(s[i], size_bytes) ELSE s[i]])]
       ELSE [ok |-> FALSE,
             error |-> [exc |-> "AssertionError", msg |-> [text |-> ""]]]

(***************************************************************************)
(* Validation (assembler.py 80-98, utils.py 8-28).  A message is the       *)
(* record of the text and of the values its f-string formats.              *)
(***************************************************************************)
NoError == [exc |-> "none", msg |-> [text |-> ""]]

SetMin(S) == CHOOSE x \in S : \A y \in S : x <= y
SetMax(S) == CHOOSE x \in S : \A y \in S : x >= y

default_unique_error(ident) == [text |-> "Duplicate key", ident |-> ident]

set_unique(d, k, v) ==
    IF k \in DOMAIN d
    THEN [ok |-> FALSE,
          error |-> [exc |-> "AssertionError", msg |-> default_unique_error(k)]]
    ELSE [ok |-> TRUE, dict |-> (k :> v) @@ d]

\* the pairs (step.mid, i) of the Mark steps, taken in stream order; todo holds
\* the 1-based positions not yet inserted, the dict holds enumerate's 0-based i
RECURSIVE build_unique_dict(_, _, _)
build_unique_dict(s, todo, new_dict) ==
    IF todo = {} THEN [ok |-> TRUE, dict |-> new_dict]
    ELSE LET i == SetMin(todo)
             r == set_unique(new_dict, s[i].mid, i - 1)
         IN IF r.ok THEN build_unique_dict(s, todo \ {i}, r.dict) ELSE r

InvalidReferenceUnnamed(i, mid) ==
    [exc |-> "AssertionError",
     msg |-> [text |-> "has invalid reference to", step |-> i]]

InvalidReference(i, mid) ==
    [exc |-> "AssertionError",
     msg |-> [text |-> "has invalid reference to", step |-> i, ident |-> mid]]

NegativeDelta(i) ==
    [exc |-> "AssertionError",
     msg |-> [text |-> "references negative delta", step |-> i]]

delta_is_ordered_or_equal(end_index, start_index) == end_index >= start_index

delta_is_different(end_index, start_index) == end_index # start_index

delta_is_ordered(end_index, start_index) == end_index > start_index

\* the assertion that fails on step s[p] (0-based position p - 1), if any
check_step(s, indices, p) ==
    LET step == s[p]
    IN CASE step.kind = "MarkRef" ->
              IF step.mid \notin DOMAIN indices
              THEN InvalidReference(p - 1, step.mid) ELSE NoError
         [] step.kind = "MarkDeltaRef" ->
              IF step.start \notin DOMAIN indices
              THEN InvalidReference(p - 1, step.start)
              ELSE IF step.end \notin DOMAIN indices
              THEN InvalidReference(p - 1, step.end)
              ELSE IF ~delta_is_ordered(indices[step.end], indices[step.start])
              THEN NegativeDelta(p - 1) ELSE NoError
         [] OTHER -> NoError

\* NoError, or the first assertion validate_asm fails
validate_asm(s) ==
    LET marks == {i \in DOMAIN s : s[i].kind = "Mark"}
        built == build_unique_dict(s, marks, [k \in {} |-> 0])
    IN IF ~built.ok THEN built.error
       ELSE LET indices == built.dict
                bad == {p \in DOMAIN s :
                          IsRef(s[p]) /\ check_step(s, indices, p).exc # "none"}
            IN IF bad = {} THEN NoError ELSE check_step(s, indices, SetMin(bad))

(***************************************************************************)
(* Offsets and the shrinker (assembler.py 101-143).                        *)
(***************************************************************************)
\* a Mark's offset is the running total before it; a later Mark of the same
\* identity overwrites an earlier one
get_solid_offsets(s) ==
    LET marks == {i \in DOMAIN s : s[i].kind = "Mark"}
    IN [m \in {s[i].mid : i \in marks} |->
          SizeOfRange(s, 1, SetMax({i \in marks : s[i].mid = m}) - 1)]

\* what a reference resolves to under mark_offsets
ref_value(ref, mark_offsets) ==
    IF ref.kind = "MarkRef"
    THEN mark_offsets[ref.mid]
    ELSE mark_offsets[ref.end] - mark_offsets[ref.start]

shorten_step(step, mark_offsets) ==
    IF step.kind = "SizedRef"
    THEN LET req_size == needed_bytes(ref_value(step.ref, mark_offsets))
         IN IF req_size # step.offset_size THEN set_size(step, req_size) ELSE step
    ELSE step

\* <<changed_any, shortened_steps>>
shorten_asm_once(s) ==
    LET mark_offsets == get_solid_offsets(s)
        shortened_steps == List([i \in DOMAIN s |-> shorten_step(s[i], mark_offsets)])
    IN << \E i \in DOMAIN s : shortened_steps[i] # s[i], shortened_steps >>

shorten_asm_max_iters_default == 100

shorten_asm_continues_while_changed(changed, iters) == changed

\* the loop condition of shorten_asm: `while changed_any and max_iters`
shorten_asm_continues(changed, iters) == changed /\ iters # 0

(***************************************************************************)
(* Emission (assembler.py 146-172).                                        *)
(***************************************************************************)
\* int.to_bytes(size, 'big') raises OverflowError outside 0 .. 256^size - 1
to_bytes_fits(value, size) == value >= 0 /\ value < 256 ^ size

to_bytes(value, size) ==
    List([i \in 1..size |-> (value \div (256 ^ (size - i))) % 256])

step_bytes(step, mark_offsets) ==
    CASE step.kind = "Op" -> get_bytes(step)
      [] step.kind = "Mark" -> <<>>
      [] step.kind = "SizedRef" ->
           get_bytes(create_push(
               to_bytes(ref_value(step.ref, mark_offsets), step.offset_size)))
      [] step.kind = "bytes" -> step.data

\* final_bytes after steps lo..hi; the concatenation is split in halves so that
\* its evaluation nests no deeper than log2 of the stream's length
RECURSIVE EmitRange(_, _, _, _)
EmitRange(s, mark_offsets, lo, hi) ==
    IF lo > hi THEN <<>>
    ELSE IF lo = hi THEN step_bytes(s[lo], mark_offsets)
    ELSE LET mid == (lo + hi) \div 2
         IN EmitRange(s, mark_offsets, lo, mid) \o EmitRange(s, mark_offsets, mid + 1, hi)

\* the bytecode, or the OverflowError of the first reference that does not fit
solid_asm_to_bytecode(s) ==
    LET mark_offsets == get_solid_offsets(s)
        overflow == {i \in DOMAIN s :
                       /\ s[i].kind = "SizedRef"
                       /\ ~to_bytes_fits(ref_value(s[i].ref, mark_offsets),
                                         s[i].offset_size)}
    IN IF overflow # {}
       THEN [ok |-> FALSE,
             error |-> [exc |-> "OverflowError", msg |-> [text |-> "int too big to convert"]]]
       ELSE [ok |-> TRUE, bytes |-> EmitRange(s, mark_offsets, 1, Len(s))]

asm_to_bytecode_max_reduce_iters_default == -1

minimal_deploy_copy_from_end(rt) ==
    LET start == MarkId(START_SUB_ID)
        end == MarkId(END_SUB_ID)
    IN << MarkDeltaRef(start, end),
          create_plain_op("dup1"),
          MarkRef(end),
          create_plain_op("push0"),
          create_plain_op("codecopy"),
          create_plain_op("push0"),
          create_plain_op("return"),
          Mark(start),
          Bytes(rt),
          Mark(end) >>

\* the stream minimal_deploy hands to asm_to_bytecode
minimal_deploy(rt) ==
    LET start == MarkId(START_SUB_ID)
        end == MarkId(END_SUB_ID)
    IN << MarkDeltaRef(start, end),
          create_plain_op("dup1"),
          MarkRef(start),
          create_plain_op("push0"),
          create_plain_op("codecopy"),
          create_plain_op("push0"),
          create_plain_op("return"),
          Mark(start),
          Bytes(rt),
          Mark(end) >>

(***************************************************************************)
(* The inputs the entry points are called with.                            *)
(***************************************************************************)
MarkIds == {MarkId(START_SUB_ID), MarkId(END_SUB_ID)}

\* n raw bytes
Data(n) == List([i \in 1..n |-> (7 * i) % 256])

Nop == create_plain_op("jumpdest")

Alphabet ==
    {Mark(m) : m \in MarkIds}
    \cup {MarkRef(m) : m \in MarkIds}
    \cup {MarkDeltaRef(a, b) : a \in MarkIds, b \in MarkIds}
    \cup {Nop, Bytes(Data(253))}

ShortStreams == UNION {[1..n -> Alphabet] : n \in 0..MaxLen}

\* an absolute reference to L, n single-byte no-ops, then the label L
NopStream(n) ==
    List([i \in 1..(n + 2) |->
            IF i = 1 THEN MarkRef(MarkId(START_SUB_ID))
            ELSE IF i = n + 2 THEN Mark(MarkId(START_SUB_ID))
            ELSE Nop])

NopCounts == {300, 301, 65532, 65533, 65534, 65535}

\* a stream whose second reference fits one byte only once the first has shrunk
CascadeStream ==
    << Mark(MarkId(START_SUB_ID)),
       MarkRef(MarkId(START_SUB_ID)),
       MarkRef(MarkId(END_SUB_ID)),
       create_push(<<1>>),
       Bytes(Data(248)),
       Mark(MarkId(END_SUB_ID)),
       Bytes(Data(253)) >>

Streams == ShortStreams \cup {NopStream(n) : n \in NopCounts} \cup {CascadeStream}

\* the budgets a caller of asm_to_bytecode passes explicitly
Budgets == (-1)..MaxBudget

PayloadLens == (0..MaxPayload) \cup {246, 247, 255, 256, 65525, 65536}

\* shrink passes a run may take in the model
MaxPasses == 8

(***************************************************************************)
(* The pipeline as a process: asm_to_bytecode (assembler.py 175-179) and   *)
(* minimal_deploy (182-197), one action per call they make.                *)
(***************************************************************************)
Init ==
    /\ pc = "idle"
    /\ entry = "none"
    /\ asm = <<>>
    /\ runtime = <<>>
    /\ given = FALSE
    /\ max_reduce_iters = 0
    /\ solid_asm = <<>>
    /\ max_iters = 0
    /\ changed_any = FALSE
    /\ passes = 0
    /\ error = NoError
    /\ bytecode = <<>>

\* asm_to_bytecode(a) or asm_to_bytecode(a, b)
Call_asm_to_bytecode ==
    /\ pc = "idle"
    /\ \E a \in Streams, g \in BOOLEAN :
         \E b \in IF g THEN Budgets ELSE {asm_to_bytecode_max_reduce_iters_default} :
            /\ asm' = a
            /\ given' = g
            /\ max_reduce_iters' = b
    /\ entry' = "asm_to_bytecode"
    /\ pc' = "validate"
    /\ UNCHANGED <<runtime, solid_asm, max_iters, changed_any, passes, error, bytecode>>

\* minimal_deploy(rt): asm_to_bytecode of its stream, the budget not given
Call_minimal_deploy ==
    /\ pc = "idle"
    /\ \E k \in PayloadLens :
         /\ runtime' = Data(k)
         /\ asm' = minimal_deploy(Data(k))
    /\ given' = FALSE
    /\ max_reduce_iters' = asm_to_bytecode_max_reduce_iters_default
    /\ entry' = "minimal_deploy"
    /\ pc' = "validate"
    /\ UNCHANGED <<solid_asm, max_iters, changed_any, passes, error, bytecode>>

\* line 176: validate_asm(asm)
Validate ==
    /\ pc = "validate"
    /\ LET e == validate_asm(asm)
       IN IF e.exc = "none"
          THEN pc' = "solidify" /\ UNCHANGED error
          ELSE pc' = "failed" /\ error' = e
    /\ UNCHANGED <<entry, asm, runtime, given, max_reduce_iters, solid_asm,
                   max_iters, changed_any, passes, bytecode>>

\* line 177: solid_asm = asm_to_solid(asm); then shorten_asm is entered
\* (lines 138-139) with max_iters = max_reduce_iters and changed_any = True
Solidify ==
    /\ pc = "solidify"
    /\ LET r == asm_to_solid(asm)
       IN IF r.ok
          THEN /\ solid_asm' = r.asm
               /\ max_iters' = max_reduce_iters
               /\ changed_any' = TRUE
               /\ pc' = "shorten"
               /\ UNCHANGED error
          ELSE /\ pc' = "failed"
               /\ error' = r.error
               /\ UNCHANGED <<solid_asm, max_iters, changed_any>>
    /\ UNCHANGED <<entry, asm, runtime, given, max_reduce_iters, passes, bytecode>>

\* lines 140-142: one iteration of shorten_asm's loop
ShortenPass ==
    /\ pc = "shorten"
    /\ shorten_asm_continues(changed_any, max_iters)
    /\ passes < MaxPasses
    /\ max_iters' = max_iters - 1
    /\ LET r == shorten_asm_once(solid_asm)
       IN changed_any' = r[1] /\ solid_asm' = r[2]
    /\ passes' = passes + 1
    /\ UNCHANGED <<pc, entry, asm, runtime, given, max_reduce_iters, error, bytecode>>

\* line 143: the loop is left and shorten_asm returns
ShortenReturn ==
    /\ pc = "shorten"
    /\ ~shorten_asm_continues(changed_any, max_iters)
    /\ pc' = "emit"
    /\ UNCHANGED <<entry, asm, runtime, given, max_reduce_iters, solid_asm,
                   max_iters, changed_any, passes, error, bytecode>>

\* line 179: solid_asm_to_bytecode(solid_asm)
Emit ==
    /\ pc = "emit"
    /\ LET r == solid_asm_to_bytecode(solid_asm)
       IN IF r.ok
          THEN pc' = "done" /\ bytecode' = r.bytes /\ UNCHANGED error
          ELSE pc' = "failed" /\ error' = r.error /\ UNCHANGED bytecode
    /\ UNCHANGED <<entry, asm, runtime, given, max_reduce_iters, solid_asm,
                   max_iters, changed_any, passes>>

Next ==
    \/ Call_asm_to_bytecode
    \/ Call_minimal_deploy
    \/ Validate
    \/ Solidify
    \/ ShortenPass
    \/ ShortenReturn
    \/ Emit

Spec == Init /\ [][Next]_vars

(***************************************************************************)
(* Vocabulary of the properties.                                           *)
(***************************************************************************)
\* the number a big-endian immediate decodes to
RECURSIVE from_bytes(_)
from_bytes(data) ==
    IF Len(data) = 0 THEN 0
    ELSE 256 * from_bytes(SubSeq(data, 1, Len(data) - 1)) + data[Len(data)]

\* shorten_asm has been entered and no failure has ended the call
Solid == pc \in {"shorten", "emit", "done"}

SizedRefs(s) == {i \in DOMAIN s : s[i].kind = "SizedRef"}

MarkPositions(s) == {i \in DOMAIN s : s[i].kind = "Mark"}

\* the value the reference at position i of the solid stream s resolves to
ValueAt(s, i) == ref_value(s[i].ref, get_solid_offsets(s))

\* the byte offset at which step i of the solid stream s starts
OffsetOf(s, i) == SizeOfRange(s, 1, i - 1)

ValidationTexts ==
    {"Duplicate key", "has invalid reference to", "references negative delta"}

RejectedByValidate == pc = "failed" /\ error.msg.text \in ValidationTexts

DuplicateMark(s) ==
    \E i \in MarkPositions(s), j \in MarkPositions(s) : i < j /\ s[i].mid = s[j].mid

Carried(s) == {s[i].mid : i \in MarkPositions(s)}

RefPositions(s) == {i \in DOMAIN s : IsRef(s[i])}

\* the identities step names
Named(step) == IF step.kind = "MarkRef" THEN {step.mid} ELSE {step.start, step.end}

AbsentReference(s) == \E i \in RefPositions(s) : ~(Named(s[i]) \subseteq Carried(s))

MisorderedAt(s, i) ==
    /\ s[i].kind = "MarkDeltaRef"
    /\ \E p \in MarkPositions(s), q \in MarkPositions(s) :
          s[p].mid = s[i].start /\ s[q].mid = s[i].end /\ ~(q > p)

MisorderedDelta(s) == \E i \in RefPositions(s) : MisorderedAt(s, i)

\* C3: validate_asm rejects a stream exactly when two Marks share an identity
\* (the duplicate failure), or a reference names an identity no Mark carries, or
\* a MarkDeltaRef's end Mark does not come strictly after its start Mark (the
\* invalid-reference failures, start = end included); and when it rejects,
\* nothing has been solidified, shrunk or emitted.
C3_ValidateRejectsExactly ==
    pc \notin {"idle", "validate"} =>
        /\ RejectedByValidate <=>
             (DuplicateMark(asm) \/ AbsentReference(asm) \/ MisorderedDelta(asm))
        /\ RejectedByValidate =>
             /\ (error.msg.text = "Duplicate key") <=> DuplicateMark(asm)
             /\ solid_asm = <<>> /\ bytecode = <<>> /\ passes = 0
        /\ ~RejectedByValidate => pc # "failed"

\* a MarkDeltaRef whose start and end are one and the same Mark was rejected
C3_Witness ==
    /\ pc = "failed"
    /\ error.msg.text = "references negative delta"
    /\ asm[error.msg.step + 1].start = asm[error.msg.step + 1].end
    /\ ~DuplicateMark(asm)

\* the stream is NopStream(n) for its own n >= 300
IsNopStream(s) == Len(s) >= 302 /\ s = NopStream(Len(s) - 2)

\* C4 as stated: compiling [MarkRef(L), N no-ops, Mark(L)], N >= 300, leaves the
\* reference with the width needed_bytes(N).
C4_NopWidthIsNeededBytesOfN ==
    (pc = "done" /\ max_reduce_iters < 0 /\ IsNopStream(asm)) =>
        solid_asm[1].offset_size = needed_bytes(Len(asm) - 2)

\* C4 amended: the label's offset counts the reference's own 1 + width bytes, so
\* the final width is the least w whose w bytes hold N + 1 + w; it is
\* needed_bytes(N) as long as N + 3 still fits two bytes (N <= 65532), and the
\* emitted length is the sum of the final sizes, N + 1 + width.
C4_NopWidthIsNeededBytesOfOffset ==
    (pc = "done" /\ max_reduce_iters < 0 /\ IsNopStream(asm)) =>
        LET n == Len(asm) - 2
            width == solid_asm[1].offset_size
        IN /\ width = needed_bytes(n + 1 + width)
           /\ \A w \in 1..(width - 1) : ~to_bytes_fits(n + 1 + w, w)
           /\ n + 3 < 256 ^ 2 => width = needed_bytes(n)
           /\ Len(bytecode) = n + 1 + width
           /\ from_bytes(SubSeq(bytecode, 2, 1 + width)) = n + 1 + width

\* 65533 no-ops: needed_bytes(N) is 2 and the reference ends three bytes wide
C4_Witness ==
    /\ pc = "done"
    /\ max_reduce_iters < 0
    /\ IsNopStream(asm)
    /\ Len(asm) - 2 = 65533
    /\ solid_asm[1].offset_size = 3
    /\ needed_bytes(65533) = 2

\* the widths another assignment may give a reference
AltWidths == 1..3

\* the symbolic stream s with the reference at each position i given w[i] bytes
Resized(s, w) ==
    List([i \in DOMAIN s |-> IF IsRef(s[i]) THEN SizedRef(s[i], w[i]) ELSE s[i]])

\* every reference's width holds its value under the offsets the widths induce
Consistent(t) ==
    \A i \in SizedRefs(t) : to_bytes_fits(ValueAt(t, i), t[i].offset_size)

\* C1: the bytecode asm_to_bytecode emits under the unbounded budget is of
\* minimal size: no assignment of widths >= 1 to the references, each width
\* holding its reference's value under the offsets that assignment induces,
\* gives a shorter program.
C1_EmittedSizeIsMinimal ==
    (pc = "done" /\ max_reduce_iters < 0) =>
        ~ \E w \in [RefPositions(asm) -> AltWidths] :
              LET t == Resized(asm, w)
              IN Consistent(t) /\ SizeOfRange(t, 1, Len(t)) < Len(bytecode)

\* C2 as stated: without an explicit budget asm_to_bytecode shrinks under a
\* budget of 100, and only an explicit sentinel makes the budget unbounded.
C2_DefaultBudgetIs100 ==
    pc # "idle" =>
        /\ ~given => max_reduce_iters = 100
        /\ max_reduce_iters < 0 => given

\* C2 amended: without an explicit budget asm_to_bytecode hands shorten_asm the
\* sentinel -1: the budget only moves away from 0, so the loop is left only
\* after a pass that changed nothing; a bounded budget is in force only when the
\* caller passes one (a budget b >= 0 allows at most b passes).
C2_DefaultBudgetIsUnbounded ==
    pc # "idle" =>
        /\ ~given => max_reduce_iters = -1
        /\ Solid =>
             /\ max_iters = max_reduce_iters - passes
             /\ max_reduce_iters < 0 =>
                  /\ max_iters # 0
                  /\ pc \in {"emit", "done"} => ~changed_any
             /\ max_reduce_iters >= 0 => passes <= max_reduce_iters

\* a call without a budget that has run three passes, the budget now at -4
C2_Witness ==
    /\ pc = "emit"
    /\ ~given
    /\ passes = 3
    /\ max_iters = -4

\* the bytes of the bytecode b from 0-based offset lo up to hi (exclusive)
Slice(b, lo, hi) == SubSeq(b, lo + 1, hi)

\* C5: minimal_deploy of a payload of K >= 0 bytes emits a push of K, dup1, a
\* push of the offset at which the payload starts, push0, codecopy, push0,
\* return, and then the K payload bytes as the suffix of the bytecode.
C5_DeployLayout ==
    entry = "minimal_deploy" =>
        /\ pc # "failed"
        /\ pc = "done" =>
             LET K == Len(runtime)
                 n1 == bytecode[1] - OpByte("push0")
                 n2 == bytecode[n1 + 3] - OpByte("push0")
                 payload_at == n1 + n2 + 7
             IN /\ n1 >= 1 /\ n2 >= 1
                /\ from_bytes(Slice(bytecode, 1, 1 + n1)) = K
                /\ bytecode[n1 + 2] = OpByte("dup1")
                /\ from_bytes(Slice(bytecode, n1 + 3, n1 + 3 + n2)) = payload_at
                /\ Slice(bytecode, n1 + n2 + 3, payload_at)
                     = << OpByte("push0"), OpByte("codecopy"),
                          OpByte("push0"), OpByte("return") >>
                /\ Len(bytecode) = payload_at + K
                /\ Slice(bytecode, payload_at, payload_at + K) = runtime

\* a payload of 256 bytes, whose length takes a two-byte push
C5_Witness ==
    /\ entry = "minimal_deploy"
    /\ pc = "done"
    /\ Len(runtime) = 256
    /\ bytecode[1] = OpByte("push0") + 2

\* the MarkDeltaRef steps of a solid stream
DeltaRefs(s) == {i \in SizedRefs(s) : s[i].ref.kind = "MarkDeltaRef"}

\* C6 as stated: every distance reference of a validated stream resolves to a
\* strictly positive distance, at every shrink pass and at emission.
C6_DistanceStrictlyPositive ==
    Solid => \A i \in DeltaRefs(solid_asm) : ValueAt(solid_asm, i) > 0

\* the position of the Mark carrying mid (one only, in a validated stream)
MarkAt(s, mid) == CHOOSE p \in MarkPositions(s) : s[p].mid = mid

\* C6 amended: every distance reference of a validated stream resolves to a
\* distance >= 0, the total size of the steps between its two Marks (the end
\* Mark after the start Mark); the distance is 0 exactly when every step between
\* them has size 0.
C6_DistanceNonNegative ==
    Solid =>
        \A i \in DeltaRefs(solid_asm) :
            LET p == MarkAt(solid_asm, solid_asm[i].ref.start)
                q == MarkAt(solid_asm, solid_asm[i].ref.end)
                v == ValueAt(solid_asm, i)
            IN /\ q > p
               /\ v >= 0
               /\ v = SizeOfRange(solid_asm, p + 1, q - 1)
               /\ v = 0 <=> \A k \in (p + 1)..(q - 1) : get_size(solid_asm[k]) = 0

\* a distance of 0 between two validated Marks, after a shrink pass
C6_Witness ==
    /\ Solid
    /\ passes >= 1
    /\ \E i \in DeltaRefs(solid_asm) : ValueAt(solid_asm, i) = 0

\* C7 as stated: every failure the pipeline raises carries the position of the
\* offending step, and an invalid-reference failure also names the missing or
\* misordered identity.
C7_EveryFailureCarriesPosition ==
    pc = "failed" =>
        /\ "step" \in DOMAIN error.msg
        /\ error.msg.text \in {"has invalid reference to", "references negative delta"}
             => "ident" \in DOMAIN error.msg

\* the first reference step that validate_asm cannot accept
FirstBadReference(s) ==
    SetMin({i \in RefPositions(s) :
               ~(Named(s[i]) \subseteq Carried(s)) \/ MisorderedAt(s, i)})

\* C7 amended: only the invalid-reference failures carry a step position, that
\* of the first offending reference: for an absent label the message holds the
\* position and the missing identity, for a misordered distance reference the
\* position alone.  The duplicate-label failure holds the duplicated identity
\* and no position; a failed width assertion of the solidifier holds nothing.
C7_FailureMessageContents ==
    pc = "failed" =>
        LET msg == error.msg
        IN /\ error.exc = "AssertionError"
           /\ msg.text \in ValidationTexts
           /\ msg.text = "Duplicate key" =>
                /\ DOMAIN msg = {"text", "ident"}
                /\ \E i \in MarkPositions(asm), j \in MarkPositions(asm) :
                      i < j /\ asm[i].mid = msg.ident /\ asm[j].mid = msg.ident
           /\ msg.text = "has invalid reference to" =>
                /\ DOMAIN msg = {"text", "step", "ident"}
                /\ msg.step + 1 = FirstBadReference(asm)
                /\ msg.ident \in Named(asm[msg.step + 1]) \ Carried(asm)
           /\ msg.text = "references negative delta" =>
                /\ DOMAIN msg = {"text", "step"}
                /\ msg.step + 1 = FirstBadReference(asm)
                /\ MisorderedAt(asm, msg.step + 1)

\* a misordered distance reference reported at a position other than the first
C7_Witness ==
    /\ pc = "failed"
    /\ error.msg.text = "references negative delta"
    /\ error.msg.step = 2
    /\ asm[3].start # asm[3].end

\* a pass over the solid stream s would change some width
NotFixedPoint(s) == shorten_asm_once(s)[1]

\* C8: shorten_asm with a budget b >= 0 runs at most b passes; with the budget 0
\* it runs none and returns the solidified stream as it was given, the same
\* steps in the same order with the same widths, and raises nothing.
C8_BudgetBoundsPasses ==
    (Solid /\ max_reduce_iters >= 0) =>
        /\ passes <= max_reduce_iters
        /\ max_reduce_iters = 0 =>
             /\ passes = 0
             /\ solid_asm = asm_to_solid(asm).asm
             /\ Len(solid_asm) = Len(asm)
             /\ error = NoError

\* budget 0 on a stream that a pass would have changed: it is emitted as
\* solidified
C8_Witness ==
    /\ pc = "done"
    /\ given
    /\ max_reduce_iters = 0
    /\ NotFixedPoint(solid_asm)

\* the immediate the bytecode b holds for the reference at position i of s
EmittedImmediate(b, s, i) ==
    Slice(b, OffsetOf(s, i) + 1, OffsetOf(s, i) + 1 + s[i].offset_size)

\* C9: under every budget, each reference's value is below 2^(8*width) for its
\* width whenever shorten_asm runs or has returned, so to_bytes does not fail:
\* a validated stream ends in complete bytecode in which each reference's
\* immediate is its value, and a failure comes before any step is solidified.
C9_WidthsAlwaysFit ==
    /\ Solid => Consistent(solid_asm)
    /\ pc = "failed" => error.exc # "OverflowError" /\ solid_asm = <<>> /\ bytecode = <<>>
    /\ pc = "done" =>
         /\ Len(bytecode) = SizeOfRange(solid_asm, 1, Len(solid_asm))
         /\ \A i \in SizedRefs(solid_asm) :
               /\ bytecode[OffsetOf(solid_asm, i) + 1]
                    = OpByte("push0") + solid_asm[i].offset_size
               /\ from_bytes(EmittedImmediate(bytecode, solid_asm, i))
                    = ValueAt(solid_asm, i)

\* a budget used up before the fixed point: the stream is emitted with a width
\* a further pass would still shrink
C9_Witness ==
    /\ pc = "done"
    /\ given
    /\ max_reduce_iters = 1
    /\ changed_any
    /\ NotFixedPoint(solid_asm)
    /\ SizedRefs(solid_asm) # {}

\* the sum of offset_size - 1 over the references of s: the most single-byte
\* shrinks the stream can still take
RECURSIVE Slack(_, _)
Slack(s, refs) ==
    IF refs = {} THEN 0
    ELSE LET i == SetMin(refs)
         IN (s[i].offset_size - 1) + Slack(s, refs \ {i})

\* the step of ShortenPass: shorten_asm_once was applied to solid_asm
PassTaken == pc = "shorten" /\ passes' = passes + 1

\* C10: no pass widens a reference, and each pass that reports a change takes a
\* byte off some reference, so the passes do not oscillate: they are at most one
\* more than the bytes the solidified widths can lose.  A pass that reports no
\* change leaves a stream on which a further pass reports no change and returns
\* the same stream, each width being needed_bytes of its value; under the
\* unbounded budget shorten_asm returns only after such a pass.
C10_ShrinkIsMonotone ==
    [][/\ PassTaken =>
            /\ passes' < MaxPasses
            /\ passes' <= 1 + Slack(asm_to_solid(asm).asm,
                                    SizedRefs(asm_to_solid(asm).asm))
            /\ Len(solid_asm') = Len(solid_asm)
            /\ \A i \in DOMAIN solid_asm :
                  IF solid_asm[i].kind = "SizedRef"
                  THEN /\ solid_asm'[i].ref = solid_asm[i].ref
                       /\ solid_asm'[i].offset_size <= solid_asm[i].offset_size
                  ELSE solid_asm'[i] = solid_asm[i]
            /\ changed_any' <=> solid_asm' # solid_asm
            /\ changed_any' =>
                  Slack(solid_asm', SizedRefs(solid_asm'))
                    < Slack(solid_asm, SizedRefs(solid_asm))
            /\ ~changed_any' =>
                  /\ shorten_asm_once(solid_asm') = <<FALSE, solid_asm'>>
                  /\ \A i \in SizedRefs(solid_asm') :
                        solid_asm'[i].offset_size
                          = needed_bytes(ValueAt(solid_asm', i))
       /\ (pc = "shorten" /\ pc' = "emit" /\ max_reduce_iters < 0) =>
            passes >= 1 /\ ~changed_any]_vars

\* three passes: the second shrink became possible only through the first, and
\* the third pass reports no change
C10_Witness ==
    /\ pc = "shorten"
    /\ passes = 3
    /\ ~changed_any
    /\ max_reduce_iters < 0

====
